---- MODULE Spec2Model ----
(***************************************************************************)
(* Model of wtforms_ndb/fields.py: the KeyPropertyField selection field,   *)
(* the SelectMultipleMixin multi-select fields, the prefetching variant,   *)
(* the integer-list and coordinate text fields, together with the          *)
(* collaborators they consume (the query, the key's get(), the futures,    *)
(* int() and decimal.Decimal).                                             *)
(***************************************************************************)
EXTENDS Integers, Sequences, FiniteSets, TLC

\* ------------------------------------------------------------------ bounds
\* Number of distinct entity keys that exist.
NumKeys == 2
\* Longest submitted value list / longest list of references.
MaxValues == 2
\* Longest text submitted to a list or coordinate text field, in characters.
MaxText == 5

\* ------------------------------------------------------------------ values
Ids == 1..NumKeys
\* What an entity's properties hold; two entities with one key and different
\* contents are the same entity read before and after an update.
Contents == {"a", "b"}

\* Python's None.
None == [none |-> TRUE]
\* The target attribute when populate_obj raised before writing it.
Unwritten == [unwritten |-> TRUE]
\* The outcome of an external call that raised.
Raised == [raised |-> TRUE]

Key(i) == [id |-> i]
Keys == {Key(i) : i \in Ids}
Entity(i, c) == [key |-> Key(i), content |-> c]
Objects == {Entity(i, c) : i \in Ids, c \in Contents}

\* obj.key.urlsafe(): the key's string form, an HTML option value.
urlsafe(k) == [str |-> k.id]
\* The blank sentinel '__None'.
BlankToken == [str |-> 0]
\* A submitted string that is the serialisation of no existing key.
StaleToken == [str |-> NumKeys + 1]
Tokens == {urlsafe(k) : k \in Keys} \cup {BlankToken, StaleToken}

\* The default get_label: lambda x: x.
get_label(obj) == obj

SeqsUpTo(S, n) == UNION {[1..m -> S] : m \in 0..n}
\* A query yields each entity at most once.
UniqueKeys(q) == \A i, j \in 1..Len(q) : q[i].key = q[j].key => i = j
Queries == {q \in SeqsUpTo(Objects, NumKeys) : UniqueKeys(q)}
\* Value lists submitted to the single-select field: it looks at the first
\* value only, so the later ones are drawn from two tokens.
FirstValueLists ==
    {<<>>} \cup {<<t>> : t \in Tokens}
           \cup {<<t, u>> : t \in Tokens, u \in {BlankToken, urlsafe(Key(1))}}

RemoveAt(s, i) == [j \in 1..(Len(s) - 1) |-> IF j < i THEN s[j] ELSE s[j + 1]]

\* ------------------------------------------------------------------- state
VARIABLES
    field,        \* the class of the field instance the behaviour follows
    data,         \* the data attribute of a list or coordinate text field
    submitted,    \* the value list of the process_formdata call that decides
                  \* the field's data now (None when another call decides
                  \* it), and whether it replaced data seeded by process_data
    query,        \* the objects the field's query yields now, in order
    allow_blank,  \* the field's allow_blank flag
    _data,        \* KeyPropertyField._data / SelectMultipleMixin._data
    _formdata,    \* the pending raw token(s), or None
    origin,       \* which call last decided the field's data
    last,         \* the last call on the field: its name, inputs, outcome
                  \* and, for populate_obj, the value written to obj.name
    call,         \* the multi-select process_data in progress: its input,
                  \* the futures it dispatched, how many it has collected
    _query,       \* PrefetchedKeyPropertyField._query: the future of the
                  \* backing query's fetch (None before __init__)
    dispatches    \* how many times the backing query was dispatched

vars == <<field, data, submitted, query, allow_blank, _data, _formdata, origin,
          last, call, _query, dispatches>>

\* No multi-select process_data is in progress.
Idle == [pc |-> "idle"]

\* ------------------------------------------------- KeyPropertyField: data
\* The field's two attributes as one value.
State(d, f) == [data |-> d, formdata |-> f]

\* _set_data: store the object, clear the pending token.
_set_data(x) == State(x, None)

\* for obj in self.query: if obj.key.urlsafe() == self._formdata: ... break
RECURSIVE FirstMatch(_, _, _)
FirstMatch(q, tok, i) ==
    IF i > Len(q) THEN 0
    ELSE IF urlsafe(q[i].key) = tok THEN i
    ELSE FirstMatch(q, tok, i + 1)

\* _get_data: the field's state once the getter has run; the getter returns
\* its .data.
_get_data(d, f, q) ==
    IF f # None
    THEN LET i == FirstMatch(q, f, 1)
         IN  IF i # 0 THEN _set_data(q[i]) ELSE State(d, f)
    ELSE State(d, f)

\* How many times the getter iterates the query.
GetterScans(f) == IF f # None THEN 1 ELSE 0

\* ------------------------------------------ KeyPropertyField: the handlers
\* The default blank_text, ''.
blank_text == [text |-> ""]

\* What data.get() can give for a key: the stored entity in whatever contents
\* it has now, None when it no longer exists, or an error.
GetOutcomes(ref) == {o \in Objects : o.key = ref} \cup {None, Raised}

\* Faulty variant of process_data: the else branch of the multi-select
\* process_data (self.data = None) added to the single-select one.
process_data_ElseNone(d, f, ref, got) ==
    IF got = Raised THEN State(d, f)
    ELSE IF ref # None THEN _set_data(got) ELSE _set_data(None)

\* Faulty variant of process_data: the error of get() is swallowed and the
\* field is reset (try: ... except: self.data = None).
process_data_ResetOnError(d, f, ref, got) ==
    IF got = Raised THEN _set_data(None)
    ELSE IF ref # None THEN _set_data(got) ELSE State(d, f)

\* Faulty variant of process_data: the resolved object is dropped.
process_data_NoStore(d, f, ref, got) == State(d, f)

\* process_data: if data: self.data = data.get()   (got: what get() returned)
\* When get() raises, the assignment is never reached: the error leaves the
\* handler and the field is as it was.
process_data(d, f, ref, got) ==
    IF got = Raised THEN State(d, f)
    ELSE IF ref # None THEN _set_data(got) ELSE State(d, f)

\* Faulty variant of process_formdata: the blank sentinel is recognised but
\* data is not reset.
process_formdata_KeepOnBlank(d, f, valuelist) ==
    IF valuelist # <<>>
    THEN IF valuelist[1] = BlankToken
         THEN State(d, f)
         ELSE State(None, valuelist[1])
    ELSE State(d, f)

\* Faulty variant of process_formdata: the token is stored and the data
\* held so far is not reset (as in the multi-select process_formdata).
process_formdata_KeepData(d, f, valuelist) ==
    IF valuelist # <<>>
    THEN IF valuelist[1] = BlankToken
         THEN _set_data(None)
         ELSE State(d, valuelist[1])
    ELSE State(d, f)

\* process_formdata: the blank sentinel sets data to None, any other first
\* value becomes the pending token.
process_formdata(d, f, valuelist) ==
    IF valuelist # <<>>
    THEN IF valuelist[1] = BlankToken
         THEN _set_data(None)
         ELSE State(None, valuelist[1])
    ELSE State(d, f)

\* Faulty variant of KeyFound: the else bound to the if instead of the for,
\* so only the first object of the query is compared.
KeyFound_FirstOnly(q, k, i) == i <= Len(q) /\ k = q[i].key

\* for obj in self.query: if self.data.key == obj.key: break / else: raise
RECURSIVE KeyFound(_, _, _)
KeyFound(q, k, i) ==
    IF i > Len(q) THEN FALSE
    ELSE IF k = q[i].key THEN TRUE
    ELSE KeyFound(q, k, i + 1)

\* pre_validate: the state the data reads leave, and "ok" or "error"
\* (the validation error 'Not a valid choice').
pre_validate(d, f, q, ab) ==
    LET s == _get_data(d, f, q) IN
    [state |-> s,
     res   |-> IF s.data # None
               THEN IF KeyFound(q, s.data.key, 1) THEN "ok" ELSE "error"
               ELSE IF ~ab THEN "error" ELSE "ok"]

\* populate_obj: the state the data reads leave, and the value written.
populate_obj(d, f, q) ==
    LET s == _get_data(d, f, q) IN
    [state |-> s,
     attr  |-> IF s.data # None THEN s.data.key ELSE None]

\* Faulty variant of iter_choices: selected compares the objects, not their
\* keys.
iter_choices_ObjEq(d, f, q, ab) ==
    LET s == _get_data(d, f, q) IN
    [state   |-> IF ab \/ Len(q) > 0 THEN s ELSE State(d, f),
     choices |-> (IF ab THEN << <<BlankToken, blank_text, s.data = None>> >>
                        ELSE <<>>)
                 \o [i \in 1..Len(q) |->
                        <<urlsafe(q[i].key), get_label(q[i]), s.data = q[i]>>]]

\* iter_choices, consumed to its end: the state the data reads leave, and
\* the triples yielded.  data is read for the blank choice and once per
\* object, so not at all when there is neither.
iter_choices(d, f, q, ab) ==
    LET s == _get_data(d, f, q) IN
    [state   |-> IF ab \/ Len(q) > 0 THEN s ELSE State(d, f),
     choices |-> (IF ab THEN << <<BlankToken, blank_text, s.data = None>> >>
                        ELSE <<>>)
                 \o [i \in 1..Len(q) |->
                        <<urlsafe(q[i].key), get_label(q[i]),
                          IF s.data # None THEN s.data.key = q[i].key
                                           ELSE FALSE>>]]

\* ------------------------------------------- SelectMultipleMixin: handlers
\* Lists without a repeated element.
NoRepeat(l) == \A i, j \in 1..Len(l) : l[i] = l[j] => i = j
\* What a multiple select submits: each chosen option's token once.
TokenLists == {l \in SeqsUpTo(Tokens \ {BlankToken}, MaxValues) : NoRepeat(l)}
\* The lists of references a repeated key property holds.
RefLists == SeqsUpTo(Keys, MaxValues)

\* A Python list as a value of the model (told apart from None).
List(l) == [items |-> l]

\* Python truthiness of the field's data: None and the empty list are false.
Truthy(d) == d # None /\ d.items # <<>>

\* m = {obj.key.urlsafe(): obj for obj in self.query}; m.get(x, x):
\* the last object of the query with that token, or the token itself.
RECURSIVE Lookup(_, _, _)
Lookup(q, x, i) ==
    IF i = 0 THEN x
    ELSE IF urlsafe(q[i].key) = x THEN q[i]
    ELSE Lookup(q, x, i - 1)

\* Faulty variant of multi_get_data: data already held is returned and the
\* pending tokens are resolved only when there is none.
multi_get_data_PreferData(d, f, q) ==
    IF f # None /\ d = None
    THEN _set_data(List([i \in 1..Len(f.items) |->
                            Lookup(q, f.items[i], Len(q))]))
    ELSE State(d, f)

\* SelectMultipleMixin._get_data: the field's state once the getter has run.
multi_get_data(d, f, q) ==
    IF f # None
    THEN _set_data(List([i \in 1..Len(f.items) |->
                            Lookup(q, f.items[i], Len(q))]))
    ELSE State(d, f)

\* SelectMultipleMixin.process_formdata: self._formdata = valuelist.
multi_process_formdata(d, f, valuelist) == State(d, List(valuelist))

\* SelectMultipleMixin.process_data, as one step (got: what each reference's
\* get_result() gave, in the order of value): a false value sets data to
\* None, an error of a get_result() leaves the handler before the assignment.
multi_process_data(d, f, value, got) ==
    IF value = <<>> THEN _set_data(None)
    ELSE IF \E i \in 1..Len(got) : got[i] = Raised THEN State(d, f)
    ELSE _set_data(List(got))

\* The values assigned to a multi-select field's data, and the lists of
\* references it is seeded from, where the field is followed through all its
\* handlers: None, the empty list and the lists of one element.
ShortLists(S) == {<<>>} \cup {<<x>> : x \in S}

\* An entry of the data list that has a .key: an object, not a raw token and
\* not None.
IsObject(x) == x \in Objects

\* Faulty variant of NotIn: only entries that are objects are looked for.
NotIn_ObjectsOnly(x, values) ==
    IsObject(x) /\ \A i \in 1..Len(values) : values[i] # x

\* d not in values
NotIn(x, values) == \A i \in 1..Len(values) : values[i] # x

\* SelectMultipleMixin.pre_validate.
multi_pre_validate(d, f, q) ==
    LET s == multi_get_data(d, f, q) IN
    [state |-> s,
     res   |-> IF Truthy(s.data)
                  /\ \E i \in 1..Len(s.data.items) :
                         NotIn(s.data.items[i], q)
               THEN "error" ELSE "ok"]

\* [x.key for x in self.data if x is not None], for a list of objects and
\* Nones.
RECURSIVE KeysOf(_)
KeysOf(l) ==
    IF l = <<>> THEN <<>>
    ELSE IF Head(l) = None THEN KeysOf(Tail(l))
    ELSE <<Head(l).key>> \o KeysOf(Tail(l))

\* SelectMultipleMixin.populate_obj: x.key on a raw token is an
\* AttributeError, and nothing is written.
multi_populate_obj(d, f, q) ==
    LET s == multi_get_data(d, f, q) IN
    IF Truthy(s.data)
    THEN IF \E i \in 1..Len(s.data.items) :
                s.data.items[i] # None /\ ~IsObject(s.data.items[i])
         THEN [state |-> s, res |-> "raise", attr |-> Unwritten]
         ELSE [state |-> s, res |-> "ok", attr |-> List(KeysOf(s.data.items))]
    ELSE [state |-> s, res |-> "ok", attr |-> List(<<>>)]

\* ---------------------------- SelectMultipleMixin.process_data: fan-out
\* x.get_async(): a future for the entity of reference x, not yet complete.
get_async(x) == [ref |-> x, done |-> FALSE, result |-> None, order |-> 0]

\* How many of the futures have completed.
Completed(futures) == Cardinality({i \in 1..Len(futures) : futures[i].done})

\* Faulty variant of CollectResults: the results in the order the fetches
\* completed.
CollectResults_AsCompleted(futures) ==
    List([n \in 1..Len(futures) |->
            LET i == CHOOSE j \in 1..Len(futures) : futures[j].order = n
            IN  futures[i].result])

\* [x.get_result() for x in futures]: the futures' results, in the order of
\* the futures.
CollectResults(futures) ==
    List([i \in 1..Len(futures) |-> futures[i].result])

\* ------------------------------------------ PrefetchedKeyPropertyField
\* query.fetch_async(): the future of the backing query's result.
fetch_async == [done |-> FALSE, result |-> <<>>]

\* Faulty variant of query_property: the property runs the backing query
\* again on every access.
query_property_Refetch(fut, live) == [result |-> live, dispatched |-> 1]

\* The query property: self._query.get_result().  What one read returns and
\* how many dispatches of the backing query it makes.
query_property(fut, live) == [result |-> fut.result, dispatched |-> 0]

\* How many times each handler reads self.query: once per pending-token
\* resolution, once per loop over the query.
ReadsOfGetter(f) == GetterScans(f)
ReadsOfPreValidate(d, f, q) ==
    GetterScans(f) + (IF _get_data(d, f, q).data # None THEN 1 ELSE 0)
ReadsOfIterChoices(d, f, q, ab) ==
    1 + (IF ab \/ Len(q) > 0 THEN GetterScans(f) ELSE 0)

\* ------------------------------------------------- the text fields: text
\* A text is the sequence of its characters.
Space == " "
Newline == "\n"

\* str.split(sep): the pieces between the separators, empty ones included.
RECURSIVE split(_, _)
split(s, sep) ==
    IF s = <<>> THEN << <<>> >>
    ELSE LET rest == split(Tail(s), sep) IN
         IF Head(s) = sep THEN << <<>> >> \o rest
         ELSE << <<Head(s)>> \o rest[1] >> \o Tail(rest)

\* str.splitlines(): as split on the line break, except that a line break
\* at the end of the text starts no further line (and '' has no line).
splitlines(s) ==
    LET p == split(s, Newline) IN
    IF p[Len(p)] = <<>> THEN SubSeq(p, 1, Len(p) - 1) ELSE p

\* str.strip(): leading and trailing whitespace removed.
RECURSIVE lstrip(_)
lstrip(s) ==
    IF s # <<>> /\ Head(s) = Space THEN lstrip(Tail(s)) ELSE s

RECURSIVE rstrip(_)
rstrip(s) ==
    IF s # <<>> /\ s[Len(s)] = Space THEN rstrip(SubSeq(s, 1, Len(s) - 1))
    ELSE s

strip(s) == rstrip(lstrip(s))

Digits == {"0", "1"}
DigitValue(c) == IF c = "0" THEN 0 ELSE 1
AllDigits(s) == \A i \in 1..Len(s) : s[i] \in Digits

RECURSIVE DigitsValue(_)
DigitsValue(s) ==
    IF s = <<>> THEN 0
    ELSE 10 * DigitsValue(SubSeq(s, 1, Len(s) - 1)) + DigitValue(s[Len(s)])

\* ------------------------------------------- IntegerListPropertyField
\* The characters a submitted integer list is made of here: digits, the
\* sign, whitespace, a letter, the line break.
IntChars == Digits \cup {"-", Space, "x", Newline}
IntTexts == SeqsUpTo(IntChars, MaxText)
\* What process_formdata receives: no value, or the text area's text.
IntValueLists == {<<>>} \cup {<<t>> : t \in IntTexts}
\* What the field's data holds before the submission is processed.
IntSeeds == {None, [items |-> <<7>>]}

\* int(value) accepts surrounding whitespace, an optional sign and at least
\* one digit; anything else is a ValueError.
IsInt(line) ==
    LET t == strip(line)
        u == IF t # <<>> /\ Head(t) = "-" THEN Tail(t) ELSE t
    IN  u # <<>> /\ AllDigits(u)

int(line) ==
    LET t == strip(line) IN
    IF Head(t) = "-" THEN 0 - DigitsValue(Tail(t)) ELSE DigitsValue(t)

\* The longest prefix of the lines that int() accepts.
RECURSIVE ParsedPrefix(_)
ParsedPrefix(lines) ==
    IF lines = <<>> \/ ~IsInt(Head(lines)) THEN <<>>
    ELSE <<int(Head(lines))>> \o ParsedPrefix(Tail(lines))

IntegerListError == "Not a valid integer list"

\* Faulty variant of IntegerList_process_formdata: the integers are appended
\* to data one by one, so a failing line leaves the ones before it stored.
IntegerList_process_formdata_Append(d, valuelist) ==
    IF valuelist = <<>> THEN [data |-> d, res |-> "ok"]
    ELSE LET lines == splitlines(valuelist[1])
             ints  == ParsedPrefix(lines)
         IN  [data |-> [items |-> ints],
              res  |-> IF Len(ints) = Len(lines) THEN "ok"
                       ELSE IntegerListError]

\* process_formdata: the list comprehension is evaluated in full before the
\* assignment to self.data; a ValueError of int() is raised again as the
\* field's error and the assignment is never reached.
IntegerList_process_formdata(d, valuelist) ==
    IF valuelist = <<>> THEN [data |-> d, res |-> "ok"]
    ELSE LET lines == splitlines(valuelist[1])
             ints  == ParsedPrefix(lines)
         IN  IF Len(ints) = Len(lines)
             THEN [data |-> [items |-> ints], res |-> "ok"]
             ELSE [data |-> d, res |-> IntegerListError]

\* ------------------------------------------------- GeoPtPropertyField
\* The characters a submitted coordinate is made of here: a digit, the
\* decimal point, the sign, the comma, whitespace, a letter.
GeoChars == {"1", ".", "-", ",", Space, "x"}
GeoTexts == SeqsUpTo(GeoChars, MaxText)
GeoValueLists == {<<>>} \cup {<<t>> : t \in GeoTexts}
\* What the field's data holds before the submission is processed.
GeoSeeds == {None, [text |-> <<"x">>]}

\* The parts of a numeric string: sign, digits before and after the point.
Unsigned(t) == IF t # <<>> /\ Head(t) = "-" THEN Tail(t) ELSE t
IntPart(t) == split(Unsigned(t), ".")[1]
FracPart(t) ==
    LET p == split(Unsigned(t), ".") IN IF Len(p) > 1 THEN p[2] ELSE <<>>

\* decimal.Decimal(s) accepts an optional sign, digits with at most one
\* decimal point and at least one digit; anything else is InvalidOperation.
IsDecimal(t) ==
    /\ Len(split(Unsigned(t), ".")) <= 2
    /\ AllDigits(IntPart(t))
    /\ AllDigits(FracPart(t))
    /\ IntPart(t) \o FracPart(t) # <<>>

\* '%s' % Decimal(s): the sign, the integer digits ('0' when there are
\* none), and the fraction when it has digits.  (GeoChars has no digit 0,
\* so there are no leading zeros to drop.)
DecimalStr(t) ==
    (IF Head(t) = "-" THEN <<"-">> ELSE <<>>)
    \o (IF IntPart(t) = <<>> THEN <<"0">> ELSE IntPart(t))
    \o (IF FracPart(t) = <<>> THEN <<>> ELSE <<".">> \o FracPart(t))

GeoPtError == "Not a valid coordinate location"

\* The body of the try block: how it ends, and the value it computed.
\* The unpacking of a list that has not two elements is a ValueError.
GeoPtTry(text) ==
    LET parts == split(text, ",") IN
    IF Len(parts) # 2 THEN [exc |-> "ValueError"]
    ELSE IF ~IsDecimal(strip(parts[1])) \/ ~IsDecimal(strip(parts[2]))
         THEN [exc |-> "InvalidOperation"]
    ELSE [exc |-> "none",
          value |-> [text |-> DecimalStr(strip(parts[1])) \o <<",">>
                              \o DecimalStr(strip(parts[2]))]]

\* Faulty variant of GeoPt_process_formdata: except ValueError only, so the
\* error of Decimal leaves the handler as it is.
GeoPt_process_formdata_ValueErrorOnly(d, valuelist) ==
    IF valuelist = <<>> THEN [data |-> d, res |-> "ok"]
    ELSE LET t == GeoPtTry(valuelist[1]) IN
         IF t.exc = "none" THEN [data |-> t.value, res |-> "ok"]
         ELSE IF t.exc = "ValueError" THEN [data |-> d, res |-> GeoPtError]
         ELSE [data |-> d, res |-> t.exc]

\* process_formdata: both exceptions are raised again as the field's one
\* error; self.data is assigned only when the try block reaches its end.
GeoPt_process_formdata(d, valuelist) ==
    IF valuelist = <<>> THEN [data |-> d, res |-> "ok"]
    ELSE LET t == GeoPtTry(valuelist[1]) IN
         IF t.exc = "none" THEN [data |-> t.value, res |-> "ok"]
         ELSE [data |-> d, res |-> GeoPtError]

\* What a process_formdata call with a non-empty value list leaves in
\* `submitted`: the values, and whether process_data had seeded the data
\* they replace.
Submitted(valuelist, org) ==
    [values |-> List(valuelist), seeded |-> org = "process_data"]

\* ------------------------------------------------------------ Init
Init ==
    /\ field = "KeyPropertyField"
    /\ data = None
    /\ submitted = None
    /\ query \in Queries
    /\ allow_blank \in BOOLEAN
    /\ _data = None
    /\ _formdata = None
    /\ origin = "init"
    /\ last = [op |-> "init", res |-> "ok", carried |-> None]
    /\ call = Idle
    /\ _query = None
    /\ dispatches = 0

\* --------------------------------------------- the query's contents change
QueryAppend ==
    /\ Len(query) < NumKeys
    /\ \E o \in Objects :
          /\ \A i \in 1..Len(query) : query[i].key # o.key
          /\ query' = Append(query, o)
    /\ last' = [op |-> "env", res |-> "ok"]
    /\ UNCHANGED <<field, data, submitted, allow_blank, _data, _formdata,
                   origin, call, _query, dispatches>>

QueryRemove ==
    /\ \E i \in 1..Len(query) : query' = RemoveAt(query, i)
    /\ last' = [op |-> "env", res |-> "ok"]
    /\ UNCHANGED <<field, data, submitted, allow_blank, _data, _formdata,
                   origin, call, _query, dispatches>>

QueryUpdate ==
    /\ \E i \in 1..Len(query), c \in Contents :
          /\ c # query[i].content
          /\ query' = [query EXCEPT ![i].content = c]
    /\ last' = [op |-> "env", res |-> "ok"]
    /\ UNCHANGED <<field, data, submitted, allow_blank, _data, _formdata,
                   origin, call, _query, dispatches>>

\* --------------------------------------------- KeyPropertyField: handlers
\* __init__: a new field instance for the next form (self._set_data(None)).
\* When the previous form ended in populate_obj, the model object it wrote
\* is what the new form is built from: the record of that write is carried.
NewField ==
    LET s == _set_data(None) IN
    /\ last.op # "init"
    /\ _data' = s.data
    /\ _formdata' = s.formdata
    /\ origin' = "init"
    /\ last' = [op |-> "init", res |-> "ok",
                carried |-> IF last.op = "populate_obj" THEN last ELSE None]
    /\ submitted' = None
    /\ UNCHANGED <<field, data, query, allow_blank, call, _query,
                   dispatches>>

\* A read of the data property.
ReadData ==
    LET s == _get_data(_data, _formdata, query) IN
    /\ _data' = s.data
    /\ _formdata' = s.formdata
    /\ last' = [op |-> "data", res |-> "ok", value |-> s.data,
                scans |-> GetterScans(_formdata)]
    /\ UNCHANGED <<field, data, submitted, query, allow_blank, origin, call,
                   _query, dispatches>>

\* An assignment to the data property.
SetData ==
    \E x \in Objects \cup {None} :
        LET s == _set_data(x) IN
        /\ _data' = s.data
        /\ _formdata' = s.formdata
        /\ origin' = "assigned"
        /\ last' = [op |-> "set_data", res |-> "ok"]
        /\ submitted' = None
        /\ UNCHANGED <<field, data, query, allow_blank, call,
                       _query, dispatches>>

ProcessData ==
    \E ref \in Keys \cup {None} :
      \E got \in (IF ref = None THEN {None} ELSE GetOutcomes(ref)) :
        LET s == process_data(_data, _formdata, ref, got) IN
        /\ _data' = s.data
        /\ _formdata' = s.formdata
        /\ origin' = IF ref = None \/ got = Raised THEN origin
                                                   ELSE "process_data"
        /\ last' = [op |-> "process_data",
                    res |-> IF got = Raised THEN "raise" ELSE "ok",
                    ref |-> ref, got |-> got,
                    before |-> State(_data, _formdata),
                    written |-> IF last.op = "populate_obj" THEN last
                                ELSE IF last.op = "init" THEN last.carried
                                ELSE None]
        /\ submitted' = IF ref = None \/ got = Raised THEN submitted
                                                          ELSE None
        /\ UNCHANGED <<field, data, query, allow_blank, call, _query,
                       dispatches>>

ProcessFormdata ==
    \E valuelist \in FirstValueLists :
        LET s == process_formdata(_data, _formdata, valuelist) IN
        /\ _data' = s.data
        /\ _formdata' = s.formdata
        /\ origin' = IF valuelist = <<>> THEN origin
                     ELSE IF valuelist[1] = BlankToken THEN "blank"
                     ELSE "token"
        /\ last' = [op |-> "process_formdata", res |-> "ok"]
        /\ submitted' = IF valuelist = <<>> THEN submitted
                        ELSE Submitted(<<valuelist[1]>>, origin)
        /\ UNCHANGED <<field, data, query, allow_blank, call, _query,
                       dispatches>>

PreValidate ==
    LET r == pre_validate(_data, _formdata, query, allow_blank) IN
    /\ _data' = r.state.data
    /\ _formdata' = r.state.formdata
    /\ last' = [op |-> "pre_validate", res |-> r.res]
    /\ UNCHANGED <<field, data, submitted, query, allow_blank, origin, call,
                   _query, dispatches>>

PopulateObj ==
    LET r == populate_obj(_data, _formdata, query) IN
    /\ _data' = r.state.data
    /\ _formdata' = r.state.formdata
    /\ last' = [op |-> "populate_obj", res |-> "ok", attr |-> r.attr,
                value |-> r.state.data]
    /\ UNCHANGED <<field, data, submitted, query, allow_blank, origin, call,
                   _query, dispatches>>

IterChoices ==
    LET r == iter_choices(_data, _formdata, query, allow_blank) IN
    /\ _data' = r.state.data
    /\ _formdata' = r.state.formdata
    /\ last' = [op |-> "iter_choices", res |-> "ok", choices |-> r.choices]
    /\ UNCHANGED <<field, data, submitted, query, allow_blank, origin, call,
                   _query, dispatches>>

Next ==
    \/ NewField
    \/ QueryAppend
    \/ QueryRemove
    \/ QueryUpdate
    \/ ReadData
    \/ SetData
    \/ ProcessData
    \/ ProcessFormdata
    \/ PreValidate
    \/ PopulateObj
    \/ IterChoices

Spec == Init /\ [][Next]_vars


\* ---------------------------------------- the multi-select field's calls
\* The multi-select and the prefetching field are followed over a query
\* whose entities are not updated while the field lives: its objects appear
\* and disappear.
FreshContent == "a"
FreshQueries ==
    {q \in Queries : \A i \in 1..Len(q) : q[i].content = FreshContent}

MultiInit ==
    /\ field = "RepeatedKeyPropertyField"
    /\ data = None
    /\ submitted = None
    /\ query \in FreshQueries
    /\ allow_blank = FALSE
    /\ _data = None
    /\ _formdata = None
    /\ origin = "init"
    /\ last = [op |-> "init", res |-> "ok", carried |-> None]
    /\ call = Idle
    /\ _query = None
    /\ dispatches = 0

QueryAppendFresh ==
    /\ Len(query) < NumKeys
    /\ \E o \in Objects :
          /\ o.content = FreshContent
          /\ \A i \in 1..Len(query) : query[i].key # o.key
          /\ query' = Append(query, o)
    /\ last' = [op |-> "env", res |-> "ok"]
    /\ UNCHANGED <<field, data, submitted, allow_blank, _data, _formdata,
                   origin, call, _query, dispatches>>

MultiReadData ==
    LET s == multi_get_data(_data, _formdata, query) IN
    /\ _data' = s.data
    /\ _formdata' = s.formdata
    /\ last' = [op |-> "data", res |-> "ok", value |-> s.data,
                scans |-> GetterScans(_formdata)]
    /\ UNCHANGED <<field, data, submitted, query, allow_blank, origin, call,
                   _query, dispatches>>

\* process_formdata(valuelist): a form's submission, processed once on a
\* field instance (a later assignment or process_data starts the field anew).
MultiProcessFormdata ==
    \E valuelist \in TokenLists :
        LET s == multi_process_formdata(_data, _formdata, valuelist) IN
        /\ submitted = None
        /\ _data' = s.data
        /\ _formdata' = s.formdata
        /\ origin' = "token"
        /\ last' = [op |-> "process_formdata", res |-> "ok"]
        /\ submitted' = Submitted(valuelist, origin)
        /\ UNCHANGED <<field, data, query, allow_blank, call, _query,
                       dispatches>>

\* An assignment to the data property.
MultiSetData ==
    \E x \in {None} \cup {List(l) : l \in ShortLists(Objects)} :
        LET s == _set_data(x) IN
        /\ _data' = s.data
        /\ _formdata' = s.formdata
        /\ origin' = "assigned"
        /\ submitted' = None
        /\ last' = [op |-> "set_data", res |-> "ok"]
        /\ UNCHANGED <<field, data, query, allow_blank, call, _query,
                       dispatches>>

\* process_data(value), from its entry to its return or its error.
MultiProcessData ==
    \E value \in ShortLists(Keys) :
      \E got \in {g \in ShortLists(Objects \cup {None, Raised}) :
                    /\ Len(g) = Len(value)
                    /\ \A i \in 1..Len(g) : g[i] \in GetOutcomes(value[i])} :
        LET s      == multi_process_data(_data, _formdata, value, got)
            raised == \E i \in 1..Len(got) : got[i] = Raised
        IN
        /\ _data' = s.data
        /\ _formdata' = s.formdata
        /\ origin' = IF raised THEN origin ELSE "process_data"
        /\ submitted' = IF raised THEN submitted ELSE None
        /\ last' = [op |-> "process_data",
                    res |-> IF raised THEN "raise" ELSE "ok"]
        /\ UNCHANGED <<field, data, query, allow_blank, call, _query,
                       dispatches>>

\* __init__ of the field instance of the next form.
MultiNewField ==
    LET s == _set_data(None) IN
    /\ last.op # "init"
    /\ _data' = s.data
    /\ _formdata' = s.formdata
    /\ origin' = "init"
    /\ submitted' = None
    /\ last' = [op |-> "init", res |-> "ok", carried |-> None]
    /\ UNCHANGED <<field, data, query, allow_blank, call, _query, dispatches>>

MultiPreValidate ==
    LET r == multi_pre_validate(_data, _formdata, query) IN
    /\ _data' = r.state.data
    /\ _formdata' = r.state.formdata
    /\ last' = [op |-> "pre_validate", res |-> r.res,
                pending |-> _formdata]
    /\ UNCHANGED <<field, data, submitted, query, allow_blank, origin, call,
                   _query, dispatches>>

MultiPopulateObj ==
    LET r == multi_populate_obj(_data, _formdata, query) IN
    /\ _data' = r.state.data
    /\ _formdata' = r.state.formdata
    /\ last' = [op |-> "populate_obj", res |-> r.res, attr |-> r.attr,
                value |-> r.state.data]
    /\ UNCHANGED <<field, data, submitted, query, allow_blank, origin, call,
                   _query, dispatches>>

MultiNext ==
    \/ QueryAppendFresh
    \/ QueryRemove
    \/ MultiNewField
    \/ MultiReadData
    \/ MultiSetData
    \/ MultiProcessData
    \/ MultiProcessFormdata
    \/ MultiPreValidate
    \/ MultiPopulateObj

SpecMulti == MultiInit /\ [][MultiNext]_vars


\* -------------------------- the multi-select process_data, step by step
FanInit ==
    /\ field = "RepeatedKeyPropertyField"
    /\ data = None
    /\ submitted = None
    /\ query = <<>>
    /\ allow_blank = FALSE
    /\ _data = None
    /\ _formdata = None
    /\ origin = "init"
    /\ last = [op |-> "init", res |-> "ok", carried |-> None]
    /\ call = Idle
    /\ _query = None
    /\ dispatches = 0

\* process_formdata(valuelist) on a new field, before process_data: one
\* submitted token is left pending.
FanSubmit ==
    /\ call.pc = "idle"
    /\ last.op = "init"
    /\ \E valuelist \in {l \in TokenLists : Len(l) = 1} :
          LET s == multi_process_formdata(_data, _formdata, valuelist) IN
          /\ _data' = s.data
          /\ _formdata' = s.formdata
          /\ submitted' = Submitted(valuelist, origin)
    /\ origin' = "token"
    /\ last' = [op |-> "process_formdata", res |-> "ok"]
    /\ UNCHANGED <<field, data, query, allow_blank, call, _query, dispatches>>

\* process_data(value) is entered on a new field, or on one that holds a
\* pending token.  A false value (None, the empty list) sets data to None at
\* once.  The call remembers the state it was entered in.
FanStart ==
    /\ call.pc = "idle"
    /\ last.op \in {"init", "process_formdata"}
    /\ \E value \in RefLists :
          IF value = <<>>
          THEN /\ _data' = _set_data(None).data
               /\ _formdata' = _set_data(None).formdata
               /\ origin' = "process_data"
               /\ submitted' = None
               /\ last' = [op |-> "process_data", res |-> "ok",
                           value |-> value, futures |-> <<>>]
               /\ UNCHANGED call
          ELSE /\ call' = [pc |-> "dispatch", value |-> value,
                           futures |-> <<>>, collected |-> 0,
                           before |-> State(_data, _formdata)]
               /\ last' = [op |-> "call", res |-> "ok"]
               /\ UNCHANGED <<_data, _formdata, origin, submitted>>
    /\ UNCHANGED <<field, data, query, allow_blank, _query, dispatches>>

\* futures = [x.get_async() for x in value]: the next dispatch.
FanDispatch ==
    /\ call.pc = "dispatch"
    /\ LET n  == Len(call.futures) + 1
           fs == Append(call.futures, get_async(call.value[n]))
       IN  call' = [call EXCEPT !.futures = fs,
                                !.pc = IF n = Len(call.value)
                                       THEN "collect" ELSE "dispatch"]
    /\ UNCHANGED <<field, data, submitted, query, allow_blank, _data,
                   _formdata, origin, last, _query, dispatches>>

\* A dispatched fetch completes, in any order, with what get() gives.
FanComplete ==
    /\ call.pc \in {"dispatch", "collect"}
    /\ \E i \in 1..Len(call.futures) :
          /\ ~call.futures[i].done
          /\ \E got \in GetOutcomes(call.futures[i].ref) :
                call' = [call EXCEPT
                           !.futures[i].done = TRUE,
                           !.futures[i].result = got,
                           !.futures[i].order = Completed(call.futures) + 1]
    /\ UNCHANGED <<field, data, submitted, query, allow_blank, _data,
                   _formdata, origin, last, _query, dispatches>>

\* x.get_result() on the next future, in the order of the list: it waits
\* until that future is complete; its error ends the call.
FanCollect ==
    /\ call.pc = "collect"
    /\ call.collected < Len(call.futures)
    /\ LET f == call.futures[call.collected + 1] IN
       /\ f.done
       /\ IF f.result = Raised
          THEN /\ call' = Idle
               /\ last' = [op |-> "process_data", res |-> "raise",
                           value |-> call.value, futures |-> call.futures,
                           before |-> call.before]
          ELSE /\ call' = [call EXCEPT !.collected = @ + 1]
               /\ UNCHANGED last
    /\ UNCHANGED <<field, data, submitted, query, allow_blank, _data,
                   _formdata, origin, _query, dispatches>>

\* self.data = [...], once every result is collected.
FanStore ==
    /\ call.pc = "collect"
    /\ call.collected = Len(call.futures)
    /\ LET s == _set_data(CollectResults(call.futures)) IN
       /\ _data' = s.data
       /\ _formdata' = s.formdata
    /\ origin' = "process_data"
    /\ last' = [op |-> "process_data", res |-> "ok",
                value |-> call.value, futures |-> call.futures]
    /\ call' = Idle
    /\ submitted' = None
    /\ UNCHANGED <<field, data, query, allow_blank, _query,
                   dispatches>>

\* __init__ of the next field instance.
FanNewField ==
    /\ call.pc = "idle"
    /\ last.op # "init"
    /\ _data' = _set_data(None).data
    /\ _formdata' = _set_data(None).formdata
    /\ origin' = "init"
    /\ last' = [op |-> "init", res |-> "ok", carried |-> None]
    /\ submitted' = None
    /\ UNCHANGED <<field, data, query, allow_blank, call, _query,
                   dispatches>>

FanNext ==
    \/ FanSubmit
    \/ FanStart
    \/ FanDispatch
    \/ FanComplete
    \/ FanCollect
    \/ FanStore
    \/ FanNewField

SpecFanout == FanInit /\ [][FanNext]_vars


\* ------------------------------ the prefetching field's calls
PrefetchInit ==
    /\ field = "PrefetchedKeyPropertyField"
    /\ data = None
    /\ submitted = None
    /\ query \in FreshQueries
    /\ allow_blank \in BOOLEAN
    /\ _data = None
    /\ _formdata = None
    /\ origin = "init"
    /\ last = [op |-> "new", res |-> "ok"]
    /\ call = Idle
    /\ _query = None
    /\ dispatches = 0

\* __init__: self._set_data(None); self._query = query.fetch_async().
PrefetchConstruct ==
    /\ _query = None
    /\ _data' = _set_data(None).data
    /\ _formdata' = _set_data(None).formdata
    /\ _query' = fetch_async
    /\ dispatches' = dispatches + 1
    /\ last' = [op |-> "init", res |-> "ok", carried |-> None]
    /\ UNCHANGED <<field, data, submitted, query, allow_blank, origin, call>>

\* The dispatched fetch completes with what the backing query yields then.
PrefetchComplete ==
    /\ _query # None
    /\ ~_query.done
    /\ _query' = [done |-> TRUE, result |-> query]
    /\ UNCHANGED <<field, data, submitted, query, allow_blank, _data,
                   _formdata, origin, last, call, dispatches>>

\* The backing query's contents change, before and after the fetch.
PrefetchQueryAppend ==
    /\ _query # None
    /\ QueryAppendFresh

PrefetchQueryRemove ==
    /\ _query # None
    /\ QueryRemove

\* A handler of the constructed field that reads self.query `reads` times:
\* get_result() waits for the fetch, every read goes through the property.
PrefetchCall(op, reads, s, extra) ==
    LET qp == query_property(_query, query) IN
    /\ _query # None
    /\ reads > 0 => _query.done
    /\ _data' = s.data
    /\ _formdata' = s.formdata
    /\ dispatches' = dispatches + reads * qp.dispatched
    /\ last' = [op |-> op, res |-> "ok", reads |-> reads,
                qread |-> IF reads > 0 THEN qp.result ELSE <<>>,
                out |-> extra]
    /\ UNCHANGED <<field, data, submitted, query, allow_blank, call, _query>>

PrefetchReadData ==
    LET q == query_property(_query, query).result IN
    /\ PrefetchCall("data", ReadsOfGetter(_formdata),
                    _get_data(_data, _formdata, q), None)
    /\ UNCHANGED origin

PrefetchProcessFormdata ==
    \E valuelist \in FirstValueLists :
        /\ PrefetchCall("process_formdata", 0,
                        process_formdata(_data, _formdata, valuelist), None)
        /\ origin' = IF valuelist = <<>> THEN origin
                     ELSE IF valuelist[1] = BlankToken THEN "blank"
                     ELSE "token"

PrefetchPreValidate ==
    LET q == query_property(_query, query).result
        r == pre_validate(_data, _formdata, q, allow_blank)
    IN
    /\ PrefetchCall("pre_validate", ReadsOfPreValidate(_data, _formdata, q),
                    r.state, [res |-> r.res])
    /\ UNCHANGED origin

PrefetchIterChoices ==
    LET q == query_property(_query, query).result
        r == iter_choices(_data, _formdata, q, allow_blank)
    IN
    /\ PrefetchCall("iter_choices",
                    ReadsOfIterChoices(_data, _formdata, q, allow_blank),
                    r.state, [choices |-> r.choices])
    /\ UNCHANGED origin

PrefetchPopulateObj ==
    LET q == query_property(_query, query).result
        r == populate_obj(_data, _formdata, q)
    IN
    /\ PrefetchCall("populate_obj", ReadsOfGetter(_formdata),
                    r.state, [attr |-> r.attr])
    /\ UNCHANGED origin

PrefetchNext ==
    \/ PrefetchConstruct
    \/ PrefetchComplete
    \/ PrefetchQueryAppend
    \/ PrefetchQueryRemove
    \/ PrefetchReadData
    \/ PrefetchProcessFormdata
    \/ PrefetchPreValidate
    \/ PrefetchIterChoices
    \/ PrefetchPopulateObj

SpecPrefetch == PrefetchInit /\ [][PrefetchNext]_vars

\* ------------------------------------------------------------
\* SpecResolve: process_data and its external resolve calls on both kinds of
\* field.  A behaviour follows either a KeyPropertyField, through all its
\* handlers, or a multi-select field, through the steps of its fan-out.
ResolveInit == Init \/ FanInit

ResolveNext ==
    \/ field = "KeyPropertyField" /\ Next
    \/ field = "RepeatedKeyPropertyField" /\ FanNext

SpecResolve == ResolveInit /\ [][ResolveNext]_vars

\* ------------------------------------------------------------
\* SpecFields: both kinds of selection field, each through all its handlers.
\* A behaviour follows either a KeyPropertyField or a multi-select field.
FieldsInit == Init \/ MultiInit

FieldsNext ==
    \/ field = "KeyPropertyField" /\ Next
    \/ field = "RepeatedKeyPropertyField" /\ MultiNext

SpecFields == FieldsInit /\ [][FieldsNext]_vars


\* ------------------------------------------------------------
\* SpecIntList: an IntegerListPropertyField whose data was set before the
\* form's submission is processed, once per field instance.
IntListInit ==
    /\ field = "IntegerListPropertyField"
    /\ data \in IntSeeds
    /\ submitted = None
    /\ query = <<>>
    /\ allow_blank = FALSE
    /\ _data = None
    /\ _formdata = None
    /\ origin = "init"
    /\ last = [op |-> "init", res |-> "ok"]
    /\ call = Idle
    /\ _query = None
    /\ dispatches = 0

IntListProcessFormdata ==
    /\ last.op = "init"
    /\ \E valuelist \in IntValueLists :
          LET r == IntegerList_process_formdata(data, valuelist) IN
          /\ data' = r.data
          /\ last' = [op |-> "process_formdata", res |-> r.res,
                      valuelist |-> valuelist, before |-> data]
    /\ UNCHANGED <<field, submitted, query, allow_blank, _data, _formdata,
                   origin, call, _query, dispatches>>

\* The field instance of the next form.
IntListNewField ==
    /\ last.op # "init"
    /\ data' \in IntSeeds
    /\ last' = [op |-> "init", res |-> "ok"]
    /\ UNCHANGED <<field, submitted, query, allow_blank, _data, _formdata,
                   origin, call, _query, dispatches>>

IntListNext ==
    \/ IntListProcessFormdata
    \/ IntListNewField

SpecIntList == IntListInit /\ [][IntListNext]_vars

\* ------------------------------------------------------------
\* SpecGeoPt: a GeoPtPropertyField whose data was set before the form's
\* submission is processed, once per field instance.
GeoPtInit ==
    /\ field = "GeoPtPropertyField"
    /\ data \in GeoSeeds
    /\ submitted = None
    /\ query = <<>>
    /\ allow_blank = FALSE
    /\ _data = None
    /\ _formdata = None
    /\ origin = "init"
    /\ last = [op |-> "init", res |-> "ok"]
    /\ call = Idle
    /\ _query = None
    /\ dispatches = 0

GeoPtProcessFormdata ==
    /\ last.op = "init"
    /\ \E valuelist \in GeoValueLists :
          LET r == GeoPt_process_formdata(data, valuelist) IN
          /\ data' = r.data
          /\ last' = [op |-> "process_formdata", res |-> r.res,
                      valuelist |-> valuelist, before |-> data]
    /\ UNCHANGED <<field, submitted, query, allow_blank, _data, _formdata,
                   origin, call, _query, dispatches>>

\* The field instance of the next form.
GeoPtNewField ==
    /\ last.op # "init"
    /\ data' \in GeoSeeds
    /\ last' = [op |-> "init", res |-> "ok"]
    /\ UNCHANGED <<field, submitted, query, allow_blank, _data, _formdata,
                   origin, call, _query, dispatches>>

GeoPtNext ==
    \/ GeoPtProcessFormdata
    \/ GeoPtNewField

SpecGeoPt == GeoPtInit /\ [][GeoPtNext]_vars

\* ============================================================ properties
\* The value a read of data returns in the current state.
Resolved == _get_data(_data, _formdata, query).data

\* The record of the populate_obj whose written reference the last
\* process_data was given, or None.
WrittenBefore ==
    IF last.op = "process_data" /\ last.written # None
       /\ last.ref = last.written.attr
    THEN last.written ELSE None

\* C1 as stated: whenever populate_obj wrote the key of a non-None object S
\* and process_data is then given the stored reference and returns, the
\* field's data equals S.
C1_RoundTripAsStated ==
    (WrittenBefore # None /\ last.res = "ok")
        => (WrittenBefore.value # None => _data = WrittenBefore.value)

\* C1 amended: the round trip reproduces S when the stored key's get()
\* returns an entity equal to S; it goes through the key, not the query.
C1_RoundTrip ==
    (WrittenBefore # None /\ WrittenBefore.value # None
        /\ last.got = WrittenBefore.value)
        => (_data = WrittenBefore.value /\ _formdata = None
            /\ WrittenBefore.attr = WrittenBefore.value.key)

C1_Witness ==
    /\ WrittenBefore # None
    /\ WrittenBefore.value # None
    /\ last.got = WrittenBefore.value
    /\ last.before = State(None, None)
    /\ _data = WrittenBefore.value

\* C2: pre_validate fails exactly when the resolved data is an object whose
\* key no object of the query has, or the resolved data is None and
\* allow_blank is false.
C2_PreValidate ==
    last.op = "pre_validate" =>
        (last.res = "error" <=>
            \/ /\ Resolved # None
               /\ \A i \in 1..Len(query) : query[i].key # Resolved.key
            \/ /\ Resolved = None
               /\ ~allow_blank)

\* pre_validate rejects a selection whose entity has left the query while
\* another object is still there.
C2_Witness ==
    /\ last.op = "pre_validate"
    /\ last.res = "error"
    /\ _data # None
    /\ Len(query) > 0
    /\ origin = "token"

\* C3 as stated, single-select field: after a read of data or an assignment
\* to it, no token is pending.
C3_FormdataClearedAfterAccess ==
    last.op \in {"data", "set_data"} => _formdata = None

\* C6: with allow_blank, once process_formdata has seen the blank sentinel
\* first, data is None and pre_validate succeeds, whatever the query holds.
C6_BlankChoice ==
    (origin = "blank" /\ allow_blank) =>
        /\ _data = None
        /\ _formdata = None
        /\ Resolved = None
        /\ (last.op = "pre_validate" => last.res = "ok")

C6_Witness ==
    /\ origin = "blank"
    /\ allow_blank
    /\ last.op = "pre_validate"
    /\ last.res = "ok"
    /\ query = <<>>

\* C9: iter_choices yields the blank choice first iff allow_blank, selected
\* iff data is None; then one triple per object of the query, in query
\* order, selected iff data is an object with that object's key; at most one
\* choice is selected.
C9_IterChoices ==
    last.op = "iter_choices" =>
        LET ch  == last.choices
            off == IF allow_blank THEN 1 ELSE 0
        IN
        /\ last.res = "ok"
        /\ Len(ch) = off + Len(query)
        /\ allow_blank => ch[1] = <<BlankToken, blank_text, Resolved = None>>
        /\ \A i \in 1..Len(query) :
              ch[off + i] = <<urlsafe(query[i].key), get_label(query[i]),
                              Resolved # None /\ Resolved.key = query[i].key>>
        /\ Cardinality({i \in 1..Len(ch) : ch[i][3]}) <= 1

\* The selected entity was updated since it was selected: the choice of its
\* key is still the selected one.
C9_Witness ==
    /\ last.op = "iter_choices"
    /\ allow_blank
    /\ Len(query) = NumKeys
    /\ last.choices[NumKeys + 1][3]
    /\ _data # query[NumKeys]

\* C10: with no selection, populate_obj writes None, and process_data(None)
\* afterwards changes neither _data nor _formdata; data still reads None.
C10_NoSelection ==
    /\ (last.op = "populate_obj" /\ last.value = None) => last.attr = None
    /\ (WrittenBefore # None /\ WrittenBefore.value = None) =>
          /\ last.ref = None
          /\ State(_data, _formdata) = last.before
          /\ Resolved = None

\* The no-selection state with a token still pending.
C10_Witness ==
    /\ WrittenBefore # None
    /\ WrittenBefore.value = None
    /\ last.ref = None
    /\ _formdata # None


\* C4: every reference has its fetch dispatched before any result is
\* collected, and the stored list has the input's length with the result of
\* the fetch of value[i] at position i, whatever order the fetches completed
\* in.
C4_FanInOrder ==
    /\ (call.pc # "idle" /\ call.collected > 0) =>
          /\ Len(call.futures) = Len(call.value)
          /\ \A i \in 1..Len(call.value) :
                call.futures[i].ref = call.value[i]
    /\ (last.op = "process_data" /\ last.res = "ok" /\ last.value # <<>>) =>
          /\ _data # None
          /\ Len(_data.items) = Len(last.value)
          /\ \A i \in 1..Len(last.value) :
                /\ last.futures[i].ref = last.value[i]
                /\ _data.items[i] = last.futures[i].result
                /\ _data.items[i] # None =>
                      _data.items[i].key = last.value[i]

\* A call whose later fetch completed first, with different results.
C4_Witness ==
    /\ last.op = "process_data"
    /\ last.res = "ok"
    /\ Len(last.value) >= 2
    /\ last.futures[2].order < last.futures[1].order
    /\ last.futures[1].result # last.futures[2].result
    /\ _data = List(<<last.futures[1].result, last.futures[2].result>>
                    \o [i \in 1..(Len(last.value) - 2) |->
                          last.futures[i + 2].result])

\* The value populate_obj is to write for a resolved list: the keys of its
\* objects, in order, leaving out raw tokens and Nones.
RECURSIVE ResolvedKeys(_)
ResolvedKeys(l) ==
    IF l = <<>> THEN <<>>
    ELSE IF IsObject(Head(l)) THEN <<Head(l).key>> \o ResolvedKeys(Tail(l))
    ELSE ResolvedKeys(Tail(l))

\* C7 as stated: for data produced from submitted tokens, populate_obj
\* completes and writes the keys of the resolved objects, in order, without
\* the unresolved entries; the empty list when there is no data.
C7_PopulateObjAsStated ==
    (last.op = "populate_obj" /\ origin = "token") =>
        /\ last.res = "ok"
        /\ last.attr = List(IF _data = None THEN <<>>
                            ELSE ResolvedKeys(_data.items))

\* C8: pre_validate called with the submitted tokens still pending fails
\* exactly when one of them is the token of no object of the query.
C8_MultiPreValidate ==
    (last.op = "pre_validate" /\ last.pending # None) =>
        (last.res = "error" <=>
            \E i \in 1..Len(last.pending.items) :
                \A j \in 1..Len(query) :
                    urlsafe(query[j].key) # last.pending.items[i])

\* Two tokens were submitted; one matched an object, the other none.
C8_Witness ==
    /\ last.op = "pre_validate"
    /\ last.pending # None
    /\ last.res = "error"
    /\ Len(last.pending.items) >= 2
    /\ \E i \in 1..Len(_data.items) : IsObject(_data.items[i])


\* C5: the backing query is dispatched once, in __init__; every read of the
\* query property afterwards returns the completed result of that one fetch
\* and dispatches nothing, and the completed result never changes.
C5_DispatchedOnce ==
    /\ [](/\ _query = None => dispatches = 0
          /\ _query # None => dispatches = 1
          /\ (last.op \notin {"new", "init", "env"} /\ last.reads > 0) =>
                (_query.done /\ last.qread = _query.result))
    /\ [][(_query # None /\ _query.done) => _query' = _query]_vars

\* A handler read the property twice after the backing query's contents
\* had moved on from the fetched result.
C5_Witness ==
    /\ last.op = "pre_validate"
    /\ last.reads = 2
    /\ dispatches = 1
    /\ last.qread # query
    /\ Len(last.qread) > 0

\* ------------------------------------------------------------
\* C11: an error raised by the external resolve call during process_data
\* leaves the handler (the call ends in the error exactly when a resolution
\* it used raised) and _data and _formdata are then exactly what they were
\* when the call was entered.  On the multi-select field this holds whichever
\* of the dispatched resolutions raised, and while the call is in progress
\* nothing, in particular no partially resolved list, has been stored.
C11_ResolveErrorPropagates ==
    /\ last.op = "process_data" /\ field = "KeyPropertyField" =>
          (last.res = "raise" <=> last.got = Raised)
    /\ last.op = "process_data" /\ field = "RepeatedKeyPropertyField" =>
          (last.res = "raise" <=>
              \E i \in 1..Len(last.futures) : last.futures[i].result = Raised)
    /\ last.op = "process_data" /\ last.res = "raise" =>
          State(_data, _formdata) = last.before
    /\ call.pc # "idle" => State(_data, _formdata) = call.before

\* The second of two resolutions raised after the first gave an object, on a
\* field that held a pending token.
C11_Witness ==
    /\ field = "RepeatedKeyPropertyField"
    /\ last.op = "process_data"
    /\ last.res = "raise"
    /\ Len(last.futures) = 2
    /\ last.futures[1].result \in Objects
    /\ last.futures[2].result = Raised
    /\ last.before.formdata # None
    /\ _formdata # None

\* ------------------------------------------------------------
\* C12: IntegerListPropertyField.process_formdata is all-or-nothing.  When
\* every line of the submitted text is an integer, the call succeeds and data
\* is the list of those integers, one per line, in line order; when some line
\* is not, the call fails with the field's error and data is what it was
\* before the call, never a list of the lines parsed so far.
C12_AllOrNothing ==
    last.op = "process_formdata" /\ last.valuelist # <<>> =>
        LET lines == splitlines(last.valuelist[1]) IN
        IF \A i \in 1..Len(lines) : IsInt(lines[i])
        THEN /\ last.res = "ok"
             /\ data = [items |-> [i \in 1..Len(lines) |-> int(lines[i])]]
        ELSE /\ last.res = IntegerListError
             /\ data = last.before

\* A text whose first line is an integer and whose second is not, submitted
\* to a field that held a list: the call failed and the list is kept.
C12_Witness ==
    /\ last.op = "process_formdata"
    /\ last.valuelist = << <<"1", Newline, "x">> >>
    /\ last.res = IntegerListError
    /\ last.before # None
    /\ data = last.before

\* ------------------------------------------------------------
\* C13: GeoPtPropertyField.process_formdata stores '<lat>,<lon>' exactly when
\* the submitted text has one comma and the text on each side of it, without
\* its surrounding whitespace, is a decimal; lat and lon are then those
\* decimals as text.  Every other text (no comma, more than one comma,
\* something that is no decimal on either side) fails with the one error of
\* the field and data is what it was before the call.
C13_GeoPt ==
    last.op = "process_formdata" /\ last.valuelist # <<>> =>
        LET text   == last.valuelist[1]
            commas == {i \in 1..Len(text) : text[i] = ","}
            c      == CHOOSE i \in commas : TRUE
            lat    == strip(SubSeq(text, 1, c - 1))
            lon    == strip(SubSeq(text, c + 1, Len(text)))
        IN  IF Cardinality(commas) = 1 /\ IsDecimal(lat) /\ IsDecimal(lon)
            THEN /\ last.res = "ok"
                 /\ data = [text |-> DecimalStr(lat) \o <<",">>
                                     \o DecimalStr(lon)]
            ELSE /\ last.res = GeoPtError
                 /\ data = last.before

\* A submitted '.1,-1' was stored as '0.1,-1'.
C13_Witness ==
    /\ last.op = "process_formdata"
    /\ last.valuelist = << <<".", "1", ",", "-", "1">> >>
    /\ last.res = "ok"
    /\ data = [text |-> <<"0", ".", "1", ",", "-", "1">>]

\* ------------------------------------------------------------
\* C14 as stated: on both kinds of field _data and _formdata are never both
\* non-None.
C14_ExclusiveAsStated == ~(_data # None /\ _formdata # None)

\* C14: on a KeyPropertyField _data and _formdata are never both non-None.
\* On a multi-select field process_formdata leaves _data as it is, so both
\* can be non-None; the _data left under pending tokens is never what a read
\* returns: the read gives the list resolved from the tokens alone, and after
\* a read or an assignment of data _formdata is None.
C14_Exclusive ==
    /\ field = "KeyPropertyField" => ~(_data # None /\ _formdata # None)
    /\ field = "RepeatedKeyPropertyField" /\ _formdata # None =>
          /\ multi_get_data(_data, _formdata, query)
                = multi_get_data(None, _formdata, query)
          /\ multi_get_data(_data, _formdata, query).formdata = None
    /\ field = "RepeatedKeyPropertyField" /\ last.op \in {"data", "set_data"} =>
          _formdata = None

\* A multi-select field seeded by process_data with one object, then given a
\* submission: the seed is still in _data under the pending tokens, and a
\* read would return another list.
C14_Witness ==
    /\ field = "RepeatedKeyPropertyField"
    /\ _formdata # None
    /\ _data # None
    /\ _data.items # <<>>
    /\ submitted # None
    /\ submitted.seeded
    /\ multi_get_data(_data, _formdata, query).data # _data

\* ------------------------------------------------------------
\* C15 as stated: on a KeyPropertyField whose data is decided by a submitted
\* token other than the blank sentinel, a pre_validate that finds no object
\* with that token in the query fails, whatever allow_blank is.
C15_UnmatchedTokenRejected ==
    /\ field = "KeyPropertyField"
    /\ last.op = "pre_validate"
    /\ submitted # None
    /\ submitted.values.items[1] # BlankToken
    /\ \A i \in 1..Len(query) :
          urlsafe(query[i].key) # submitted.values.items[1]
    => last.res # "ok"

\* ------------------------------------------------------------
\* What a value read from a field shows of a submitted token: for the blank
\* sentinel and for a token no object was found for, None; otherwise an
\* object whose key is the token.
ReflectsToken(v, tok) ==
    \/ v = None
    \/ tok # BlankToken /\ v \in Objects /\ urlsafe(v.key) = tok

\* What a list read from a multi-select field shows of the submitted tokens:
\* one entry per token, in their order, each an object whose key is the token
\* or the token itself.
ReflectsTokens(v, toks) ==
    /\ v # None
    /\ Len(v.items) = Len(toks)
    /\ \A i \in 1..Len(toks) :
          \/ v.items[i] = toks[i]
          \/ v.items[i] \in Objects /\ urlsafe(v.items[i].key) = toks[i]

\* C16: once process_formdata with a non-empty value list has followed a
\* process_data that seeded the field, what a read of data gives (now, and
\* so in iter_choices, pre_validate and populate_obj, and whatever the query
\* has become meanwhile) reflects the submitted token(s) only, never the
\* seeded object(s); the values that data reads and populate_obj did get
\* show the same.  On both kinds of field.
C16_FormdataPrecedence ==
    submitted # None /\ submitted.seeded =>
        LET toks == submitted.values.items IN
        /\ field = "KeyPropertyField" =>
              /\ ReflectsToken(_get_data(_data, _formdata, query).data,
                               toks[1])
              /\ last.op \in {"data", "populate_obj"} =>
                    ReflectsToken(last.value, toks[1])
        /\ field = "RepeatedKeyPropertyField" =>
              /\ ReflectsTokens(multi_get_data(_data, _formdata, query).data,
                                toks)
              /\ last.op \in {"data", "populate_obj"} =>
                    ReflectsTokens(last.value, toks)

\* A multi-select field seeded by process_data, then given one token: the
\* read that followed resolved the token to an object of the query.
C16_Witness ==
    /\ field = "RepeatedKeyPropertyField"
    /\ submitted # None
    /\ submitted.seeded
    /\ Len(submitted.values.items) = 1
    /\ last.op = "data"
    /\ last.scans > 0
    /\ last.value.items[1] \in Objects

====
